---- MODULE Spec2Model ----
(***************************************************************************)
(* A model of deliver, a package fetcher for Go workspaces: the recursive  *)
(* fetch of a manifest's packages (downloadPackages / downloadPackage),    *)
(* the dependency tree it builds (Node, addChild) and the breadth-first    *)
(* conflict resolver (ResolveConflicts), followed by main's re-checkout of *)
(* the canonical descriptors.                                              *)
(*                                                                         *)
(* The specifications:                                                     *)
(*   SpecResolve  ResolveConflicts run step by step on every tree of at    *)
(*                most MaxTreeNodes nodes built with NewNode and addChild; *)
(*   Spec         one invocation of the tool (main) against a world of     *)
(*                working copies, upstream repositories and manifests;     *)
(*   SpecTwice    up to MaxRuns invocations in a row, upstream branches    *)
(*                moving up to MaxMoves times in between;                  *)
(*   SpecCycle    one invocation in a world with a repository whose lock   *)
(*                manifest lists a package of the repository itself;       *)
(*   SpecFair     Spec with a main that keeps taking steps.                *)
(***************************************************************************)
EXTENDS Naturals, Sequences, FiniteSets, TLC

\* ------------------------------------------------------------------ bounds
\* Number of non-root nodes of the trees SpecResolve builds.
MaxTreeNodes == 3

\* Invocations of the tool in one behaviour of SpecTwice.
MaxRuns == 2

\* Times an upstream branch tip moves in one behaviour of SpecTwice.
MaxMoves == 1

\* Calls of downloadPackages and downloadPackage open at once.
MaxStack == 6

\* ------------------------------------------------------------ value spaces
Sources == {"u1", "u2"}

\* A repository whose packages.lock lists a package of the repository itself.
CyclicSource == "u3"

\* Every upstream repository.
Upstreams == Sources \cup {CyclicSource}

\* Package names; a working copy is the directory <workspace>/src/<name>.
Names == {"a", "b", "c"}

\* The branches of the upstream repositories and their commits.
BranchNames == {"master", "dev", "main"}
Revisions == {"r1", "r2"}

\* The <<branch, revision>> pairs of the packages SpecResolve attaches: the
\* empty and the spelled-out default branch, another branch, and a package
\* without revision.
TreeRefs == {<<"", "r1">>, <<"master", "r1">>, <<"dev", "r1">>, <<"dev", "">>}

\* ------------------------------------------------------------------ Package
\* type Package struct { Name, Source, Branch, Revision string }
Package(n, s, b, r) == [Name |-> n, Source |-> s, Branch |-> b, Revision |-> r]

\* A nil *Package.
NilPackage == Package("<nil>", "<nil>", "<nil>", "<nil>")

getBranch(p) == IF p.Branch = "" THEN "master" ELSE p.Branch

\* A hasRevision that takes every package for one without revision.
hasRevisionNever(p) == FALSE

hasRevision(p) == p.Revision # ""

getRevision(p) == IF ~hasRevision(p) THEN "HEAD" ELSE p.Revision

\* A ref that is the revision alone, so that requests are compared by commit.
getRefRevisionOnly(p) == getRevision(p)

getRef(p) == getBranch(p) \o "/" \o getRevision(p)

\* --------------------------------------------------------------------- Node
\* Nodes live in a heap `nodes` (a sequence); a *Node is an index into it and
\* the nil *Node is 0.
NewNode(p) == [parent |-> 0, children |-> <<>>, packageInfo |-> p]

\* addChild that puts the child in front of the earlier children.
addChildFront(ns, this, child) ==
    [ns EXCEPT ![this].children = <<child>> \o @, ![child].parent = this]

addChild(ns, this, child) ==
    [ns EXCEPT ![this].children = Append(@, child), ![child].parent = this]

\* The "... from" lines printed under a requesting node: the sources of its
\* ancestors, nearest first, up to a nil parent or a parent without package.
RECURSIVE FromChain(_, _)
FromChain(ns, parent) ==
    IF parent = 0 \/ ns[parent].packageInfo = NilPackage
    THEN <<>>
    ELSE <<ns[parent].packageInfo.Source>> \o FromChain(ns, ns[parent].parent)

\* ---------------------------------------------------------------- variables
VARIABLES
    pc,           \* where main is
    nodes,        \* the heap of Node values
    root,         \* main's variable root (an index into nodes)
    queue,        \* ResolveConflicts: the FIFO queue of nodes
    check,        \* ResolveConflicts: source -> Conflicts{chosen, changesets}
    resolved,     \* ResolveConflicts: the result, as the nodes whose packageInfo it holds
    left,         \* ResolveConflicts: the sources the warning loop has yet to range over
    diag,         \* ResolveConflicts: the lines printed by the warning loop
    alias,        \* ResolveConflicts: what queue shares with root.children
    wc,           \* the file system: the working copy of every package name
    tip,          \* the upstream repositories: source -> branch -> tip revision
    packagesJson, \* the file packages.json of the current directory
    lockFile,     \* the file packages.lock of the current directory
    cmd,          \* args[0]
    arg,          \* args[1], "" when absent
    noRun,        \* the flag -n
    manifest,     \* main's manifest / lockManifest
    stack,        \* the call stack below main, innermost frame last
    pin,          \* main's position in `for _, packageInfo := range resolved`
    runs,         \* invocations so far
    moves,        \* upstream moves so far
    failed,       \* an operation of this invocation returned an error
    abortedAt,    \* the name of the working copy a panicking command ran on
    wcStart,      \* wc when this invocation began
    lockStart,    \* lockFile when this invocation began
    given,        \* name -> the revision the last completed git.update of this invocation left it at
    prev          \* what the previous invocation did

treeVars == <<nodes, root>>
resolveVars == <<queue, check, resolved, left, diag, alias>>
worldVars == <<wc, tip, packagesJson, lockFile>>
runVars == <<cmd, arg, noRun, manifest, stack, pin>>
ghostVars == <<runs, moves, failed, abortedAt, wcStart, lockStart, given, prev>>

vars == <<pc, treeVars, resolveVars, worldVars, runVars, ghostVars>>

\* -------------------------------------------------------- ResolveConflicts
EmptyMap == [x \in {} |-> x]

\* Every order a Go range loop may visit the keys of a map in.
Orders(S) ==
    {o \in [1..Cardinality(S) -> S] : \A i, j \in 1..Cardinality(S) : o[i] = o[j] => i = j}

\* queue = append(queue, node.children...)
EnqueueFront(q, children) == children \o q

\* The children appended last child first.
EnqueueReversed(q, children) ==
    q \o [i \in 1..Len(children) |-> children[Len(children) + 1 - i]]

Enqueue(q, children) == q \o children

\* The key of check: `check[pkg.Source]`.
IdentityByName(pkg) == pkg.Name

Identity(pkg) == pkg.Source

\* A Visit in which a node with a ref not seen before becomes the chosen one.
VisitReplacing(chk, node, pkg) ==
    LET ref == getRef(pkg)
        id == Identity(pkg)
    IN
    IF id \in DOMAIN chk
    THEN LET cs == chk[id].changesets
             same == IF ref \in DOMAIN cs THEN cs[ref] ELSE <<>>
         IN [chk EXCEPT ![id].changesets =
                [r \in DOMAIN cs \cup {ref} |->
                    IF r = ref THEN Append(same, node) ELSE cs[r]],
                        ![id].chosen = IF ref \in DOMAIN cs THEN @ ELSE node]
    ELSE chk @@ (id :> [chosen |-> node, changesets |-> (ref :> <<node>>)])

\* The body of `if conflicts, ok := check[pkg.Source]; ok {...} else {...}`.
Visit(chk, node, pkg) ==
    LET ref == getRef(pkg)
        id == Identity(pkg)
    IN
    IF id \in DOMAIN chk
    THEN LET cs == chk[id].changesets
             same == IF ref \in DOMAIN cs THEN cs[ref] ELSE <<>>
         IN [chk EXCEPT ![id].changesets =
                [r \in DOMAIN cs \cup {ref} |->
                    IF r = ref THEN Append(same, node) ELSE cs[r]]]
    ELSE chk @@ (id :> [chosen |-> node, changesets |-> (ref :> <<node>>)])

\* `if len(conflicts.changesets) == 1 { continue }`, negated.
ReportsAlways(conflicts) == TRUE

ReportsOnlyThreeRefs(conflicts) == Cardinality(DOMAIN conflicts.changesets) > 2

Reports(conflicts) == Cardinality(DOMAIN conflicts.changesets) # 1

\* The lines of one changeset with the mark on its first node, chosen or not.
RefLinesMarkFirst(ns, nodeList, chosen) ==
    [i \in 1..Len(nodeList) |->
        [kind |-> "ref",
         mark |-> (i = 1),
         ref |-> getRef(ns[nodeList[i]].packageInfo),
         node |-> nodeList[i],
         from |-> FromChain(ns, ns[nodeList[i]].parent)]]

\* The lines printed for the nodes of one changeset.
RECURSIVE RefLines(_, _, _)
RefLines(ns, nodeList, chosen) ==
    IF nodeList = <<>> THEN <<>>
    ELSE LET node == Head(nodeList) IN
         <<[kind |-> "ref",
            mark |-> (node = chosen),
            ref |-> getRef(ns[node].packageInfo),
            node |-> node,
            from |-> FromChain(ns, ns[node].parent)]>>
         \o RefLines(ns, Tail(nodeList), chosen)

\* The lines printed for one conflicted source, its changesets ranged over in
\* the order `order`.
RECURSIVE ChangesetLines(_, _, _)
ChangesetLines(ns, conflicts, order) ==
    IF order = <<>> THEN <<>>
    ELSE RefLines(ns, conflicts.changesets[Head(order)], conflicts.chosen)
         \o ChangesetLines(ns, conflicts, Tail(order))

Warning(ns, source, conflicts, order) ==
    <<[kind |-> "warning", source |-> source]>> \o ChangesetLines(ns, conflicts, order)

\* A slice is a window on an array. `queue := root.children[:]` makes queue a
\* window on the array of root.children, from its start; alias records whether
\* queue is still on that array (shared), by how many elements its start has
\* moved (off), and the slots of the array beyond len(root.children) (room), 0
\* for a slot never written. How many such slots there are shows only when an
\* append needs one: until then (seen is FALSE) room is empty.
NoAlias == [shared |-> FALSE, off |-> 0, room |-> <<>>, seen |-> FALSE]

\* The slots the appends of addChild may have left beyond the length of the
\* children they built: none, or one.
SpareSlots(n) == IF n = 0 THEN {0} ELSE {0, 1}

\* queue := root.children[:]
Sliced == [shared |-> TRUE, off |-> 0, room |-> <<>>, seen |-> FALSE]

\* queue = queue[1:len(queue)]
Advanced(al) == IF al.shared THEN [al EXCEPT !.off = @ + 1] ELSE al

\* The slots beyond len(root.children) an append of kids may find: those
\* already found, or, at the first append that needs to know, any number the
\* array may have.
SlotsFound(al, kids, n) ==
    IF al.shared /\ ~al.seen /\ kids # <<>> THEN SpareSlots(n) ELSE {Len(al.room)}

\* The array with `spare` slots beyond len(root.children).
WithRoom(al, spare) ==
    IF al.seen THEN al ELSE [al EXCEPT !.room = [i \in 1..spare |-> 0]]

\* append(queue, ...): the new elements fit into the array queue is on, n
\* being len(root.children).
Fits(al, q, kids, n) == al.shared /\ al.off + Len(q) + Len(kids) <= n + Len(al.room)

\* An append that writes from the start of the array, as if the queue had
\* never moved.
WriteAtLength(al, q) == Len(q)

\* The slots of the array before the first one append(queue, ...) writes: those
\* before the queue's start and those of the queue.
WriteAt(al, q) == al.off + Len(q)

\* The array after an append in place of kids behind slot `at`.
Written(arr, at, kids) ==
    [i \in 1..Len(arr) |-> IF i > at /\ i <= at + Len(kids) THEN kids[i - at] ELSE arr[i]]

\* resolved := []*Package{}; queue := root.children[:]; check := make(...)
CallResolve ==
    /\ pc \in {"build", "resolve"}
    /\ pc' = "bfs"
    /\ queue' = nodes[root].children
    /\ alias' = Sliced
    /\ check' = EmptyMap
    /\ resolved' = <<>>
    /\ left' = {}
    /\ diag' = <<>>
    /\ UNCHANGED <<treeVars, worldVars, runVars, ghostVars>>

\* One iteration of `for len(queue) > 0`.
Dequeue ==
    /\ pc = "bfs"
    /\ queue # <<>>
    /\ LET node == Head(queue)
           kids == nodes[node].children
           n == Len(nodes[root].children)
           q == Tail(queue)
       IN
       /\ check' = Visit(check, node, nodes[node].packageInfo)
       /\ queue' = Enqueue(q, kids)
       /\ \E spare \in SlotsFound(alias, kids, n) :
            LET al == WithRoom(Advanced(alias), spare)
                arr == Written(nodes[root].children \o al.room, WriteAt(al, q), kids)
            IN
            IF kids = <<>>
            THEN alias' = al /\ nodes' = nodes
            ELSE IF Fits(al, q, kids, n)
            THEN /\ alias' = [al EXCEPT !.room = SubSeq(arr, n + 1, Len(arr)), !.seen = TRUE]
                 /\ nodes' = [nodes EXCEPT ![root].children = SubSeq(arr, 1, n)]
            ELSE alias' = NoAlias /\ nodes' = nodes
    /\ UNCHANGED <<pc, root, resolved, left, diag, worldVars, runVars, ghostVars>>

\* The queue is empty: the traversal loop ends and the warning loop starts.
EndTraversal ==
    /\ pc = "bfs"
    /\ queue = <<>>
    /\ pc' = "report"
    /\ left' = DOMAIN check
    /\ UNCHANGED <<treeVars, queue, check, resolved, diag, alias, worldVars, runVars, ghostVars>>

\* One iteration of `for source, conflicts := range check`, in any order.
Report ==
    /\ pc = "report"
    /\ \E source \in left :
        /\ left' = left \ {source}
        /\ IF Reports(check[source])
           THEN /\ resolved' = Append(resolved, check[source].chosen)
                /\ \E order \in Orders(DOMAIN check[source].changesets) :
                      diag' = diag \o Warning(nodes, source, check[source], order)
           ELSE UNCHANGED <<resolved, diag>>
    /\ UNCHANGED <<pc, treeVars, queue, check, alias, worldVars, runVars, ghostVars>>

\* return resolved, to a main without its loop over resolved.
ReturnResolvedNoRepin ==
    /\ pc = "report"
    /\ left = {}
    /\ pc' = "repin"
    /\ pin' = Len(resolved) + 1
    /\ UNCHANGED <<treeVars, resolveVars, worldVars, cmd, arg, noRun, manifest, stack, ghostVars>>

\* return resolved
ReturnResolved ==
    /\ pc = "report"
    /\ left = {}
    /\ pc' = "repin"
    /\ UNCHANGED <<treeVars, resolveVars, worldVars, runVars, ghostVars>>


\* ------------------------------------------------------------- the world
\* const LOCK_FILE
LOCK_FILE == "packages.lock"

\* A manifest file: json of Manifest{Repository, Packages}; a package entry
\* holds Source, Branch and Revision, the Name field is not serialised.
FileEntry(s, b, r) == [Source |-> s, Branch |-> b, Revision |-> r]

NoFile == [exists |-> FALSE, Repository |-> "", Packages |-> EmptyMap]

File(repo, packages) == [exists |-> TRUE, Repository |-> repo, Packages |-> packages]

\* json.Unmarshal followed by `packageInfo.Name = packageName` for every entry.
NewManifestFromFile(file) ==
    [Repository |-> file.Repository,
     Packages |-> [n \in DOMAIN file.Packages |->
                     Package(n, file.Packages[n].Source, file.Packages[n].Branch,
                             file.Packages[n].Revision)]]

\* json.Marshal(*m): Name is tagged json:"-".
writeToFile(m) ==
    File(m.Repository,
         [n \in DOMAIN m.Packages |->
             FileEntry(m.Packages[n].Source, m.Packages[n].Branch, m.Packages[n].Revision)])

hasRepository(m) == m.Repository # ""

\* The upstream branch tips when a behaviour starts.
InitialTips ==
    [s \in Upstreams |->
        IF s = "u1" THEN [b \in BranchNames |-> IF b = "master" THEN "r1" ELSE "r2"]
        ELSE [b \in BranchNames |-> IF b = "dev" THEN "r2" ELSE "r1"]]

\* The packages.lock a repository holds at a revision: u1 at r1 depends on two
\* packages of u2, requested at different refs; u3 depends, at every revision,
\* on a package of u3; nothing else has dependencies.
RepoLock(origin, head) ==
    IF origin = "u1" /\ head = "r1"
    THEN File("", ("b" :> FileEntry("u2", "dev", "r2")) @@ ("c" :> FileEntry("u2", "", "r1")))
    ELSE IF origin = CyclicSource
    THEN File("", "c" :> FileEntry(CyclicSource, "", "r1"))
    ELSE NoFile

\* A working copy directory.
Absent ==
    [dir |-> FALSE, git |-> FALSE, origin |-> "", branch |-> "", head |-> "",
     local |-> [b \in BranchNames |-> ""]]

\* path.Join(git.repoPath, LOCK_FILE) as found on disk.
LockOf(w) == IF w.git /\ w.head # "" THEN RepoLock(w.origin, w.head) ELSE NoFile

\* mkdir -p <dir>
Mkdir(w) == [w EXCEPT !.dir = TRUE]

\* git clone -b <branch> <url> <dir>
Clone(w, url, branch, tips) ==
    [dir |-> TRUE, git |-> TRUE, origin |-> url, branch |-> branch,
     head |-> tips[url][branch],
     local |-> [b \in BranchNames |-> IF b = branch THEN tips[url][branch] ELSE ""]]

\* git checkout <x>: a revision detaches HEAD; a branch moves to the local
\* branch, created from the fetched remote branch when there is none yet.
GitCheckout(w, x, tips) ==
    IF x \in BranchNames
    THEN LET h == IF w.local[x] # "" THEN w.local[x] ELSE tips[w.origin][x]
         IN [w EXCEPT !.branch = x, !.head = h, !.local[x] = h]
    ELSE [w EXCEPT !.branch = "", !.head = x]

\* git pull origin <branch>, with <branch> checked out.
GitPull(w, branch, tips) ==
    [w EXCEPT !.head = tips[w.origin][branch], !.local[branch] = tips[w.origin][branch]]

\* The output of `git rev-parse HEAD`; executeCommand returns "" under -n.
RevParseOutput(w, dry) == IF dry THEN <<>> ELSE <<w.head, "\n">>

\* getCurrentRevision that gives the placeholder whatever the output.
getCurrentRevisionPlaceholder(out) == "<REV>"

\* getCurrentRevision: the output without its last character, "<REV>" when empty.
getCurrentRevision(out) ==
    IF Len(out) > 0 THEN SubSeq(out, 1, Len(out) - 1)[1] ELSE "<REV>"

\* executeCommand: under -n the command is printed, not run.
Execute(dry, before, after) == IF dry THEN before ELSE after

\* ------------------------------------------------------------ call frames
Frame(fn, pkg, at, top) ==
    [fn |-> fn, pkg |-> pkg, pkg0 |-> pkg, at |-> at, node |-> 0, top |-> top,
     parent |-> 0, man |-> EmptyMap, todo |-> {}, log |-> <<>>]

\* A downloadPackages that leaves out one entry of a manifest of several.
LoopFrameSkipping(parent, packages, top) ==
    [Frame("downloadPackages", NilPackage, "range", top)
        EXCEPT !.parent = parent, !.man = packages,
               !.todo = IF Cardinality(DOMAIN packages) > 1
                        THEN DOMAIN packages \ {CHOOSE n \in DOMAIN packages : TRUE}
                        ELSE DOMAIN packages]

\* downloadPackages(parent, manifest)
LoopFrame(parent, packages, top) ==
    [Frame("downloadPackages", NilPackage, "range", top)
        EXCEPT !.parent = parent, !.man = packages, !.todo = DOMAIN packages]

\* downloadPackage(packageInfo)
FetchFrame(pkg, top) == Frame("downloadPackage", pkg, "mkdir", top)

\* The re-pin of a resolved package applied to the working copy of another
\* package name that shares its source.
PinFrameBySource(pkg, node) ==
    LET others == {n \in 2..Len(nodes) :
                      /\ nodes[n].packageInfo.Source = pkg.Source
                      /\ nodes[n].packageInfo.Name # pkg.Name}
        name == IF others = {} THEN pkg.Name
                ELSE nodes[CHOOSE n \in others : TRUE].packageInfo.Name
    IN [Frame("main.update", [pkg EXCEPT !.Name = name], "checkout", FALSE)
            EXCEPT !.node = node]

\* git := GitRepositoryFromPackage(packageInfo); git.update(packageInfo), in main
PinFrame(pkg, node) == [Frame("main.update", pkg, "checkout", FALSE) EXCEPT !.node = node]

Top == stack[Len(stack)]

Pop(st) == SubSeq(st, 1, Len(st) - 1)

SetTop(st, f) == [st EXCEPT ![Len(st)] = f]

Logged(f, c, x) == [f EXCEPT !.log = Append(@, <<c, x>>)]

\* main's deferred recover(): print the panic value, os.Exit(1). Working copies
\* stay as the commands left them.
RolledBack(w, start) == start

OnAbort(w, start) == w

Panic(name) ==
    /\ pc' = "exit1"
    /\ stack' = <<>>
    /\ failed' = TRUE
    /\ abortedAt' = name
    /\ wc' = OnAbort(wc, wcStart)
    /\ UNCHANGED <<treeVars, resolveVars, tip, packagesJson, lockFile,
                   cmd, arg, noRun, manifest, pin, runs, moves, wcStart, lockStart, given, prev>>

\* A command run by executeCommand directly: it can fail only when it runs.
CommandFails == ~noRun

\* A command run by runInDirectory(dir, ...): os.Chdir(dir) comes first.
InDirectoryFails(w) == ~w.dir \/ ~noRun

InDirectorySucceeds(w) == w.dir

\* What main does once the fetch of its command has returned.
AfterFetch(m) ==
    IF hasRepository(m) THEN "symlink"
    ELSE IF cmd = "update" THEN "write" ELSE "resolve"


\* root := NewNode(&Package{Source: packagePath})
RootPackage == Package("", "proj", "", "")

\* The tree below node n with the children in order, and as a set of subtrees.
RECURSIVE Shape(_, _)
Shape(ns, n) ==
    [pkg |-> ns[n].packageInfo,
     kids |-> [i \in 1..Len(ns[n].children) |-> Shape(ns, ns[n].children[i])]]

RECURSIVE Unordered(_, _)
Unordered(ns, n) ==
    [pkg |-> ns[n].packageInfo,
     kids |-> {Unordered(ns, ns[n].children[i]) : i \in 1..Len(ns[n].children)}]

\* The canonical descriptors an invocation resolved to.
Canonical == {nodes[resolved[i]].packageInfo : i \in 1..Len(resolved)}

NoPrev ==
    [valid |-> FALSE, cmd |-> "", arg |-> "", noRun |-> FALSE,
     ok |-> FALSE,
     shape |-> Shape(<<NewNode(RootPackage)>>, 1),
     bag |-> Unordered(<<NewNode(RootPackage)>>, 1),
     canon |-> {}]

\* ------------------------------------------------------------------- main
\* flag.Parse(); args := flag.Args(); root := NewNode(&Package{Source: packagePath})
Invoke ==
    /\ pc = "idle"
    /\ runs < MaxRuns
    /\ \E c \in {"path", "install", "update"}, a \in {"", "a", "b"}, n \in BOOLEAN :
        /\ c = "path" => a = "" /\ ~n
        /\ cmd' = c
        /\ arg' = a
        /\ noRun' = n
        /\ pc' = IF c = "path" THEN "exit0" ELSE "load"
    /\ nodes' = <<NewNode(RootPackage)>>
    /\ root' = 1
    /\ queue' = <<>>
    /\ check' = EmptyMap
    /\ resolved' = <<>>
    /\ left' = {}
    /\ diag' = <<>>
    /\ alias' = NoAlias
    /\ manifest' = NewManifestFromFile(NoFile)
    /\ stack' = <<>>
    /\ pin' = 1
    /\ runs' = runs + 1
    /\ failed' = FALSE
    /\ abortedAt' = ""
    /\ wcStart' = wc
    /\ lockStart' = lockFile
    /\ given' = [n \in Names |-> ""]
    /\ UNCHANGED <<worldVars, moves, prev>>

\* The named package is not in the manifest, and main goes on without it.
LookupFailureIgnored ==
    /\ pc' = "write"
    /\ UNCHANGED <<treeVars, resolveVars, worldVars, runVars, ghostVars>>

\* `if !ok { panic(errors.New("Package ... not found ...")) }`
LookupFailure == Panic("")

\* NewManifestFromFile(LOCK_FILE) for install, NewManifestFromFile(PACKAGE_FILE)
\* for update; with a package name, the lookup and downloadPackage(packageInfo),
\* without, downloadPackages(root, manifest).
LoadManifest ==
    /\ pc = "load"
    /\ LET file == IF cmd = "install" THEN lockFile ELSE packagesJson
           m == NewManifestFromFile(file)
       IN \/ Panic("")
          \/ /\ file.exists
             /\ arg # ""
             /\ arg \notin DOMAIN m.Packages
             /\ LookupFailure
          \/ /\ file.exists
             /\ arg # "" => arg \in DOMAIN m.Packages
             /\ manifest' = m
             /\ stack' = IF arg # "" THEN <<FetchFrame(m.Packages[arg], TRUE)>>
                         ELSE <<LoopFrame(root, m.Packages, TRUE)>>
             /\ pc' = "fetch"
             /\ UNCHANGED <<treeVars, resolveVars, worldVars, cmd, arg, noRun, pin, ghostVars>>

\* downloadPackages: `for _, packageInfo := range manifest.Packages`, one
\* iteration up to the call of downloadPackage; a map is ranged in any order.
Iterate ==
    /\ pc = "fetch"
    /\ stack # <<>>
    /\ Top.fn = "downloadPackages"
    /\ Len(stack) < MaxStack
    /\ \E name \in Top.todo :
          stack' = Append(SetTop(stack, [Top EXCEPT !.todo = @ \ {name}]),
                          FetchFrame(Top.man[name], Top.top))
    /\ UNCHANGED <<pc, treeVars, resolveVars, worldVars, cmd, arg, noRun, manifest, pin, ghostVars>>

\* downloadPackages returns and main goes on, whatever is still on the stack.
LoopDoneToMain ==
    /\ pc = "fetch"
    /\ stack # <<>>
    /\ Top.fn = "downloadPackages"
    /\ Top.todo = {}
    /\ stack' = Pop(stack)
    /\ pc' = AfterFetch(manifest)
    /\ UNCHANGED <<treeVars, resolveVars, worldVars, cmd, arg, noRun, manifest, pin, ghostVars>>

\* downloadPackages returns, to downloadPackage or to main.
LoopDone ==
    /\ pc = "fetch"
    /\ stack # <<>>
    /\ Top.fn = "downloadPackages"
    /\ Top.todo = {}
    /\ stack' = Pop(stack)
    /\ pc' = IF Len(stack) = 1 THEN AfterFetch(manifest) ELSE pc
    /\ UNCHANGED <<treeVars, resolveVars, worldVars, cmd, arg, noRun, manifest, pin, ghostVars>>

\* downloadPackage: `if _, err := os.Stat(git.repoPath); os.IsNotExist(err)` mkdir -p.
MakeDir ==
    /\ pc = "fetch"
    /\ stack # <<>>
    /\ Top.fn = "downloadPackage"
    /\ Top.at = "mkdir"
    /\ LET name == Top.pkg.Name IN
       IF wc[name].dir
       THEN /\ stack' = SetTop(stack, [Top EXCEPT !.at = "clone"])
            /\ UNCHANGED <<pc, treeVars, resolveVars, worldVars, cmd, arg, noRun,
                           manifest, pin, ghostVars>>
       ELSE \/ CommandFails /\ Panic(name)
            \/ /\ wc' = [wc EXCEPT ![name] = Execute(noRun, @, Mkdir(@))]
               /\ stack' = SetTop(stack, Logged([Top EXCEPT !.at = "clone"], "mkdir", name))
               /\ UNCHANGED <<pc, treeVars, resolveVars, tip, packagesJson, lockFile,
                              cmd, arg, noRun, manifest, pin, ghostVars>>

\* A clone whenever the working copy is not one of the package's source.
NeedsCloneBySource(w, pkg) == ~w.git \/ w.origin # pkg.Source

\* downloadPackage: `if _, err := os.Stat(gitInfoPath); os.IsNotExist(err)`,
\* gitInfoPath being <workspace>/src/<packageInfo.Name>/.git.
NeedsClone(w, pkg) == ~w.git

\* downloadPackage: clone when <dir>/.git does not exist, fetch otherwise.
CloneOrFetch ==
    /\ pc = "fetch"
    /\ stack # <<>>
    /\ Top.fn = "downloadPackage"
    /\ Top.at = "clone"
    /\ LET name == Top.pkg.Name
           branch == getBranch(Top.pkg)
       IN
       IF NeedsClone(wc[name], Top.pkg)
       THEN \/ CommandFails /\ Panic(name)
            \/ /\ wc' = [wc EXCEPT ![name] =
                            Execute(noRun, @, Clone(@, Top.pkg.Source, branch, tip))]
               /\ stack' = SetTop(stack, Logged([Top EXCEPT !.at = "checkout"], "clone", branch))
               /\ UNCHANGED <<pc, treeVars, resolveVars, tip, packagesJson, lockFile,
                              cmd, arg, noRun, manifest, pin, ghostVars>>
       ELSE \/ InDirectoryFails(wc[name]) /\ Panic(name)
            \/ /\ InDirectorySucceeds(wc[name])
               /\ stack' = SetTop(stack, Logged([Top EXCEPT !.at = "checkout"], "fetch", ""))
               /\ UNCHANGED <<pc, treeVars, resolveVars, worldVars, cmd, arg, noRun,
                              manifest, pin, ghostVars>>

\* git.update: the step after the first checkout. A package with a revision is
\* done (checkoutRevision only); one without goes on to pull (checkoutBranchTip).
AfterCheckoutAlwaysPull(pinned) == "pull"

AfterCheckoutNoPull(pinned) == IF pinned THEN "done" ELSE "revparse"

AfterCheckout(pinned) == IF pinned THEN "done" ELSE "pull"

\* git.update has returned in frame f (its field at is still to be set): to
\* downloadPackage, which goes on to NewNode, or to main's loop over resolved.
UpdateReturns(f) ==
    IF f.fn = "downloadPackage"
    THEN SetTop(stack, [f EXCEPT !.at = "newnode"])
    ELSE Pop(stack)

\* git.update: checkoutRevision(packageInfo.Revision) or, in checkoutBranchTip,
\* checkoutRevision(branch).
Checkout ==
    /\ pc \in {"fetch", "repin"}
    /\ stack # <<>>
    /\ Top.fn \in {"downloadPackage", "main.update"}
    /\ Top.at = "checkout"
    /\ LET name == Top.pkg.Name
           pinned == hasRevision(Top.pkg)
           x == IF pinned THEN Top.pkg.Revision ELSE getBranch(Top.pkg)
           w == Execute(noRun, wc[name], GitCheckout(wc[name], x, tip))
           f == Logged(Top, "checkout", x)
       IN \/ InDirectoryFails(wc[name]) /\ Panic(name)
          \/ /\ InDirectorySucceeds(wc[name])
             /\ wc' = [wc EXCEPT ![name] = w]
             /\ IF AfterCheckout(pinned) = "done"
                THEN /\ stack' = UpdateReturns(f)
                     /\ given' = [given EXCEPT ![name] = w.head]
                ELSE /\ stack' = SetTop(stack, [f EXCEPT !.at = AfterCheckout(pinned)])
                     /\ UNCHANGED given
             /\ UNCHANGED <<pc, treeVars, resolveVars, tip, packagesJson, lockFile,
                            cmd, arg, noRun, manifest, pin,
                            runs, moves, failed, abortedAt, wcStart, lockStart, prev>>

\* checkoutBranchTip: pullBranch(branch).
Pull ==
    /\ pc \in {"fetch", "repin"}
    /\ stack # <<>>
    /\ Top.fn \in {"downloadPackage", "main.update"}
    /\ Top.at = "pull"
    /\ LET name == Top.pkg.Name
           branch == getBranch(Top.pkg)
       IN \/ InDirectoryFails(wc[name]) /\ Panic(name)
          \/ /\ InDirectorySucceeds(wc[name])
             /\ wc' = [wc EXCEPT ![name] = Execute(noRun, @, GitPull(@, branch, tip))]
             /\ stack' = SetTop(stack, Logged([Top EXCEPT !.at = "revparse"], "pull", branch))
             /\ UNCHANGED <<pc, treeVars, resolveVars, tip, packagesJson, lockFile,
                            cmd, arg, noRun, manifest, pin, ghostVars>>

\* git.update: packageInfo.Revision = this.getCurrentRevision(). The package is
\* shared with main's manifest when it was taken from it, and with its node
\* when main updates it after ResolveConflicts.
RevParse ==
    /\ pc \in {"fetch", "repin"}
    /\ stack # <<>>
    /\ Top.fn \in {"downloadPackage", "main.update"}
    /\ Top.at = "revparse"
    /\ LET name == Top.pkg.Name
           rev == getCurrentRevision(RevParseOutput(wc[name], noRun))
           pkg == [Top.pkg EXCEPT !.Revision = rev]
           f == Logged([Top EXCEPT !.pkg = pkg], "rev-parse", rev)
       IN \/ InDirectoryFails(wc[name]) /\ Panic(name)
          \/ /\ InDirectorySucceeds(wc[name])
             /\ stack' = UpdateReturns(f)
             /\ given' = [given EXCEPT ![name] = wc[name].head]
             /\ manifest' = IF f.top THEN [manifest EXCEPT !.Packages[name] = pkg]
                            ELSE manifest
             /\ nodes' = IF f.fn = "main.update"
                         THEN [nodes EXCEPT ![f.node].packageInfo = pkg]
                         ELSE nodes
             /\ UNCHANGED <<pc, root, resolveVars, worldVars, cmd, arg, noRun, pin,
                            runs, moves, failed, abortedAt, wcStart, lockStart, prev>>

\* downloadPackage: whether the package's dependencies are downloaded, here
\* only when no open call is downloading a package of the same source.
RecursesUnlessOpen(lock, st) ==
    /\ lock.exists
    /\ \A i \in 1..(Len(st) - 1) :
          st[i].fn = "downloadPackage" => st[i].pkg.Source # st[Len(st)].pkg.Source

\* downloadPackage: `else if err == nil`, the lock file of the package exists:
\* its dependencies are downloaded, whatever calls are open.
Recurses(lock, st) == lock.exists

\* A downloadPackage that attaches its node to the parent right after NewNode,
\* before the download of the package's dependencies.
NewNodeAndLockAttached ==
    /\ pc = "fetch"
    /\ stack # <<>>
    /\ Top.fn = "downloadPackage"
    /\ Top.at = "newnode"
    /\ LET node == Len(nodes) + 1
           lock == LockOf(wc[Top.pkg.Name])
           f == [Top EXCEPT !.node = node, !.at = "return"]
           made == Append(nodes, NewNode(Top.pkg))
       IN /\ nodes' = IF Len(stack) = 1 THEN made
                      ELSE addChild(made, stack[Len(stack) - 1].parent, node)
          /\ stack' = IF lock.exists
                      THEN Append(SetTop(stack, f),
                                  LoopFrame(node, NewManifestFromFile(lock).Packages, FALSE))
                      ELSE SetTop(stack, f)
          /\ UNCHANGED <<pc, root, resolveVars, worldVars, cmd, arg, noRun,
                         manifest, pin, ghostVars>>

\* downloadPackage: node := NewNode(packageInfo); os.Stat of the package's
\* packages.lock; when it exists NewManifestFromFile and downloadPackages(node, ...).
NewNodeAndLock ==
    /\ pc = "fetch"
    /\ stack # <<>>
    /\ Top.fn = "downloadPackage"
    /\ Top.at = "newnode"
    /\ LET node == Len(nodes) + 1
           lock == LockOf(wc[Top.pkg.Name])
           f == [Top EXCEPT !.node = node, !.at = "return"]
       IN \/ Panic("")
          \/ /\ nodes' = Append(nodes, NewNode(Top.pkg))
             /\ stack' = IF Recurses(lock, stack)
                         THEN Append(SetTop(stack, f),
                                     LoopFrame(node, NewManifestFromFile(lock).Packages, FALSE))
                         ELSE SetTop(stack, f)
             /\ UNCHANGED <<pc, root, resolveVars, worldVars, cmd, arg, noRun,
                            manifest, pin, ghostVars>>

\* downloadPackage: return node. In downloadPackages the caller attaches it,
\* parent.addChild(child); `install <name>` assigns it to root; `update <name>`
\* drops it.
Return ==
    /\ pc = "fetch"
    /\ stack # <<>>
    /\ Top.fn = "downloadPackage"
    /\ Top.at = "return"
    /\ stack' = Pop(stack)
    /\ IF Len(stack) = 1
       THEN /\ root' = IF cmd = "install" THEN Top.node ELSE root
            /\ pc' = IF cmd = "install" THEN "resolve" ELSE "relock"
            /\ UNCHANGED nodes
       ELSE /\ nodes' = addChild(nodes, stack[Len(stack) - 1].parent, Top.node)
            /\ UNCHANGED <<pc, root>>
    /\ UNCHANGED <<resolveVars, worldVars, cmd, arg, noRun, manifest, pin, ghostVars>>

\* createWorkspaceSymlink(manifest.Repository): mkdir -p, rm -f, ln -s.
Symlink ==
    /\ pc = "symlink"
    /\ \/ CommandFails /\ Panic("")
       \/ /\ pc' = IF cmd = "update" THEN "write" ELSE "resolve"
          /\ UNCHANGED <<treeVars, resolveVars, worldVars, runVars, ghostVars>>

\* update <name>: lockManifest := NewManifestFromFile(LOCK_FILE);
\* lockManifest.Packages[packageName] = packageInfo.
ReloadLock ==
    /\ pc = "relock"
    /\ \/ lockFile.exists /\ Panic("")
       \/ ~lockFile.exists /\ Panic(LOCK_FILE)
       \/ /\ lockFile.exists
          /\ manifest' = [NewManifestFromFile(lockFile) EXCEPT
                            !.Packages = (arg :> manifest.Packages[arg]) @@ @]
          /\ pc' = "write"
          /\ UNCHANGED <<treeVars, resolveVars, worldVars, cmd, arg, noRun, stack, pin, ghostVars>>

\* writeToFile(LOCK_FILE): the error of ioutil.WriteFile is dropped.
WriteLock ==
    /\ pc = "write"
    /\ pc' = "resolve"
    /\ \/ /\ lockFile' = writeToFile(manifest)
          /\ UNCHANGED failed
       \/ /\ failed' = TRUE
          /\ UNCHANGED lockFile
    /\ UNCHANGED <<treeVars, resolveVars, wc, tip, packagesJson, runVars,
                   runs, moves, abortedAt, wcStart, lockStart, given, prev>>

\* A loop over resolved that never moves on from its first descriptor.
NextPinStaying ==
    /\ pc = "repin"
    /\ stack = <<>>
    /\ pin <= Len(resolved)
    /\ stack' = <<PinFrame(nodes[resolved[pin]].packageInfo, resolved[pin])>>
    /\ pin' = pin
    /\ UNCHANGED <<pc, treeVars, resolveVars, worldVars, cmd, arg, noRun, manifest, ghostVars>>

\* `for _, packageInfo := range resolved`: GitRepositoryFromPackage and the
\* call of git.update(packageInfo).
NextPin ==
    /\ pc = "repin"
    /\ stack = <<>>
    /\ pin <= Len(resolved)
    /\ stack' = <<PinFrame(nodes[resolved[pin]].packageInfo, resolved[pin])>>
    /\ pin' = pin + 1
    /\ UNCHANGED <<pc, treeVars, resolveVars, worldVars, cmd, arg, noRun, manifest, ghostVars>>

\* main returns: exit code 0.
Exit ==
    /\ pc = "repin"
    /\ stack = <<>>
    /\ pin > Len(resolved)
    /\ pc' = "exit0"
    /\ UNCHANGED <<treeVars, resolveVars, worldVars, runVars, ghostVars>>

\* ---------------------------------------------------------- the environment
\* The process has exited with code 0; the tool may be invoked again.
Again ==
    /\ pc = "exit0"
    /\ pc' = "idle"
    /\ prev' = [valid |-> TRUE, cmd |-> cmd, arg |-> arg, noRun |-> noRun,
                ok |-> (pc = "exit0"),
                shape |-> Shape(nodes, root), bag |-> Unordered(nodes, root),
                canon |-> Canonical]
    /\ UNCHANGED <<treeVars, resolveVars, worldVars, runVars,
                   runs, moves, failed, abortedAt, wcStart, lockStart, given>>

\* Somebody pushes to a branch of an upstream repository between invocations.
UpstreamMove ==
    /\ pc = "idle"
    /\ runs >= 1
    /\ moves < MaxMoves
    /\ \E s \in Sources, b \in BranchNames, r \in Revisions :
        /\ r # tip[s][b]
        /\ tip' = [tip EXCEPT ![s][b] = r]
    /\ moves' = moves + 1
    /\ UNCHANGED <<pc, treeVars, resolveVars, wc, packagesJson, lockFile, runVars,
                   runs, failed, abortedAt, wcStart, lockStart, given, prev>>

\* ------------------------------------------------- SpecResolve: every tree
TreePackages ==
    {Package("a", s, br[1], br[2]) : s \in Sources, br \in TreeRefs}

InitResolve ==
    /\ pc = "build"
    /\ nodes = <<NewNode(RootPackage)>>
    /\ root = 1
    /\ queue = <<>>
    /\ check = EmptyMap
    /\ resolved = <<>>
    /\ left = {}
    /\ diag = <<>>
    /\ alias = NoAlias
    /\ wc = [n \in Names |-> Absent]
    /\ tip = InitialTips
    /\ packagesJson = NoFile
    /\ lockFile = NoFile
    /\ cmd = ""
    /\ arg = ""
    /\ noRun = FALSE
    /\ manifest = NewManifestFromFile(NoFile)
    /\ stack = <<>>
    /\ pin = 1
    /\ runs = 0
    /\ moves = 0
    /\ failed = FALSE
    /\ abortedAt = ""
    /\ wcStart = wc
    /\ lockStart = lockFile
    /\ given = [n \in Names |-> ""]
    /\ prev = NoPrev

\* child := NewNode(p); parent.addChild(child), for any node of the tree.
AddNode ==
    /\ pc = "build"
    /\ Len(nodes) - 1 < MaxTreeNodes
    /\ \E parent \in 1..Len(nodes), p \in TreePackages :
          nodes' = addChild(Append(nodes, NewNode(p)), parent, Len(nodes) + 1)
    /\ UNCHANGED <<pc, root, resolveVars, worldVars, runVars, ghostVars>>

NextResolve ==
    \/ AddNode
    \/ CallResolve
    \/ Dequeue
    \/ EndTraversal
    \/ Report
    \/ ReturnResolved

SpecResolve == InitResolve /\ [][NextResolve]_vars


\* ------------------------------------------------------ Spec: invocations
\* What packages.json lists: package a from either source, package b, when
\* listed, from u2; on the default branch, on dev, on main, or pinned.
JsonRefs == {<<"", "">>, <<"dev", "">>, <<"main", "">>, <<"", "r1">>}

EntriesA == {FileEntry(s, br[1], br[2]) : s \in Sources, br \in JsonRefs}

EntriesB == {FileEntry("u2", br[1], br[2]) : br \in JsonRefs}

PackageFiles ==
    {File("proj", "a" :> ea) : ea \in EntriesA}
    \cup {File("proj", ("a" :> ea) @@ ("b" :> eb)) : ea \in EntriesA, eb \in EntriesB}

\* The packages.lock an earlier `update` of file wrote, with the tips of then.
Locked(file) ==
    File(file.Repository,
         [n \in DOMAIN file.Packages |->
            LET e == file.Packages[n] IN
            FileEntry(e.Source, e.Branch,
                      IF e.Revision # "" THEN e.Revision
                      ELSE InitialTips[e.Source][IF e.Branch = "" THEN "master" ELSE e.Branch])])

\* The workspace: empty, or with clones of a and b left behind on dev at r1.
StaleClone(url) ==
    [dir |-> TRUE, git |-> TRUE, origin |-> url, branch |-> "dev", head |-> "r1",
     local |-> [b \in BranchNames |-> IF b = "dev" THEN "r1" ELSE ""]]

Fresh == [n \in Names |-> Absent]

Stale == [n \in Names |-> IF n = "a" THEN StaleClone("u1")
                          ELSE IF n = "b" THEN StaleClone("u2") ELSE Absent]

InitRun ==
    /\ pc = "idle"
    /\ nodes = <<NewNode(RootPackage)>>
    /\ root = 1
    /\ queue = <<>>
    /\ check = EmptyMap
    /\ resolved = <<>>
    /\ left = {}
    /\ diag = <<>>
    /\ alias = NoAlias
    /\ tip = InitialTips
    /\ cmd = ""
    /\ arg = ""
    /\ noRun = FALSE
    /\ manifest = NewManifestFromFile(NoFile)
    /\ stack = <<>>
    /\ pin = 1
    /\ runs = 0
    /\ moves = 0
    /\ failed = FALSE
    /\ abortedAt = ""
    /\ given = [n \in Names |-> ""]
    /\ prev = NoPrev

Init ==
    /\ InitRun
    /\ wc \in {Fresh, Stale}
    /\ wcStart = wc
    /\ packagesJson \in PackageFiles
    /\ lockFile \in {NoFile, Locked(packagesJson)}
    /\ lockStart = lockFile

Next ==
    \/ Invoke
    \/ LoadManifest
    \/ Iterate
    \/ LoopDone
    \/ MakeDir
    \/ CloneOrFetch
    \/ Checkout
    \/ Pull
    \/ RevParse
    \/ NewNodeAndLock
    \/ Return
    \/ Symlink
    \/ ReloadLock
    \/ WriteLock
    \/ CallResolve
    \/ Dequeue
    \/ EndTraversal
    \/ Report
    \/ ReturnResolved
    \/ NextPin
    \/ Exit

\* One invocation of the tool in every world of Init: without Again, pc never
\* returns to "idle".
Spec == Init /\ [][Next]_vars

\* ------------------------------------------- SpecTwice: repeated invocations
\* The tool is invoked up to MaxRuns times on an initially empty workspace that
\* holds the packages.lock of an earlier update, in a project whose packages
\* all come from u2; between invocations upstream branches may move.
InitTwice ==
    /\ InitRun
    /\ wc = Fresh
    /\ wcStart = wc
    /\ packagesJson \in {f \in PackageFiles : f.Packages["a"].Source = "u2"}
    /\ lockFile = Locked(packagesJson)
    /\ lockStart = lockFile

NextTwice ==
    \/ Next
    \/ Again
    \/ UpstreamMove

SpecTwice == InitTwice /\ [][NextTwice]_vars

\* ------------------------------------------------ notions the claims use
\* Whether node r is n or an ancestor of n.
RECURSIVE Below(_, _, _)
Below(ns, r, n) ==
    IF n = r THEN TRUE
    ELSE IF ns[n].parent = 0 THEN FALSE
    ELSE Below(ns, r, ns[n].parent)

\* The parent hops from node n up to its ancestor r.
RECURSIVE Depth(_, _, _)
Depth(ns, r, n) == IF n = r THEN 0 ELSE Depth(ns, r, ns[n].parent) + 1

\* The nodes below the root.
TreeNodes == {n \in 1..Len(nodes) : n # root /\ Below(nodes, root, n)}

RECURSIVE ChildrenOfAll(_, _)
ChildrenOfAll(ns, level) ==
    IF level = <<>> THEN <<>>
    ELSE ns[Head(level)].children \o ChildrenOfAll(ns, Tail(level))

\* Breadth-first order, level by level: the root's children, then their
\* children in the same order, and so on.
RECURSIVE LevelOrder(_, _)
LevelOrder(ns, level) ==
    IF level = <<>> THEN <<>> ELSE level \o LevelOrder(ns, ChildrenOfAll(ns, level))

BreadthFirst == LevelOrder(nodes, nodes[root].children)

Position(seq, x) == CHOOSE i \in 1..Len(seq) : seq[i] = x

\* A ref as the specification words it: branch, or "master" when empty, then
\* "/", then revision, or "HEAD" when empty.
RefString(p) ==
    (IF p.Branch = "" THEN "master" ELSE p.Branch) \o "/" \o
    (IF p.Revision = "" THEN "HEAD" ELSE p.Revision)

Requesters(s) == {n \in TreeNodes : nodes[n].packageInfo.Source = s}

RequestedRefs(s) == {RefString(nodes[n].packageInfo) : n \in Requesters(s)}

SourcesOf(seq) == {nodes[seq[i]].packageInfo.Source : i \in 1..Len(seq)}

\* ResolveConflicts has returned.
Returned == pc = "repin"

\* ------------------------------------------------------------------ claims
\* C1: shallowest wins, ties broken by discovery order. For every descriptor
\* ResolveConflicts returns, the node holding it has the least depth among the
\* nodes of the tree with the same source URL, and precedes, in breadth-first
\* (level by level) order, every other node with that source; the node is the
\* chosen node of the source's record.
C1_ShallowestWins ==
    Returned =>
        \A i \in 1..Len(resolved) :
            LET c == resolved[i]
                s == nodes[c].packageInfo.Source
            IN /\ c \in Requesters(s)
               /\ check[s].chosen = c
               /\ \A n \in Requesters(s) :
                    /\ Depth(nodes, root, c) <= Depth(nodes, root, n)
                    /\ Position(BreadthFirst, c) <= Position(BreadthFirst, n)

\* C1 witness: a conflict in which the canonical node is at depth 1 and was
\* created after a depth-2 node that asks for another ref of the same source.
C1_Witness ==
    /\ Returned
    /\ \E i \in 1..Len(resolved) : \E n \in TreeNodes :
        /\ nodes[n].packageInfo.Source = nodes[resolved[i]].packageInfo.Source
        /\ RefString(nodes[n].packageInfo) # RefString(nodes[resolved[i]].packageInfo)
        /\ Depth(nodes, root, resolved[i]) = 1
        /\ Depth(nodes, root, n) = 2
        /\ n < resolved[i]

\* C2: no false positives. When all the nodes of a source URL carry the same
\* ref string, no returned descriptor has that source and no line is printed
\* for it; a tree in which no source is shared gives an empty result.
C2_NoFalsePositives ==
    Returned =>
        /\ \A s \in Sources :
            Cardinality(RequestedRefs(s)) <= 1 =>
                /\ s \notin SourcesOf(resolved)
                /\ \A k \in 1..Len(diag) :
                    /\ diag[k].kind = "warning" => diag[k].source # s
                    /\ diag[k].kind = "ref" => nodes[diag[k].node].packageInfo.Source # s
        /\ (\A s \in Sources : Cardinality(Requesters(s)) <= 1) =>
                resolved = <<>> /\ diag = <<>>

\* C2 witness: a source requested by two nodes that spell the same ref
\* differently (empty branch and "master") and is not reported.
C2_Witness ==
    /\ Returned
    /\ \E s \in Sources :
        /\ s \notin SourcesOf(resolved)
        /\ \E n, m \in Requesters(s) :
            /\ nodes[n].packageInfo.Branch = ""
            /\ nodes[m].packageInfo.Branch = "master"

\* C3: conflict completeness. Every source URL requested with two or more
\* distinct ref strings contributes exactly one descriptor to the result, that
\* of its chosen node, and the result has as many entries as there are such
\* sources.
C3_ConflictCompleteness ==
    Returned =>
        /\ \A s \in Sources :
            Cardinality(RequestedRefs(s)) >= 2 =>
                /\ Cardinality({i \in 1..Len(resolved) :
                                    nodes[resolved[i]].packageInfo.Source = s}) = 1
                /\ \E i \in 1..Len(resolved) : resolved[i] = check[s].chosen
        /\ Len(resolved) =
                Cardinality({s \in Sources : Cardinality(RequestedRefs(s)) >= 2})

\* C3 witness: a source requested with exactly two distinct refs by three
\* nodes, reported once.
C3_Witness ==
    /\ Returned
    /\ \E s \in Sources :
        /\ Cardinality(Requesters(s)) = 3
        /\ Cardinality(RequestedRefs(s)) = 2
        /\ Len(resolved) = 1

\* ------------------------------------------ notions of the claims on runs
\* The frames of downloadPackage in which git.update has returned.
Fetched == {i \in 1..Len(stack) :
                /\ stack[i].fn = "downloadPackage"
                /\ stack[i].at \in {"newnode", "return"}}

\* The checkouts, pulls and revision reads a frame has made, in order.
UpdateOps(f) ==
    LET IsUpdateOp(e) == e[1] \in {"checkout", "pull", "rev-parse"}
    IN SelectSeq(f.log, IsUpdateOp)

\* What `git rev-parse HEAD` gives for the working copy of a package name: its
\* head, or the placeholder of a dry run.
ReadBack(name) == IF noRun THEN "<REV>" ELSE wc[name].head

\* `deliver update` on a packages.json listing a and b, both of source u2, a
\* on branch dev and b on branch main, neither with a revision; ResolveConflicts
\* has returned.
C4_Case ==
    /\ Returned
    /\ cmd = "update"
    /\ arg = ""
    /\ packagesJson.Packages =
          ("a" :> FileEntry("u2", "dev", "")) @@ ("b" :> FileEntry("u2", "main", ""))

\* C4 as stated: two differently named unpinned packages of one source URL, on
\* branches dev and main, give exactly one conflict record, keyed by the URL,
\* whose changesets are keyed "dev/HEAD" and "main/HEAD", and a result of
\* length 1.
C4_AsStated ==
    C4_Case =>
        /\ DOMAIN check = {"u2"}
        /\ DOMAIN check["u2"].changesets = {"dev/HEAD", "main/HEAD"}
        /\ Len(resolved) = 1

\* C4: source identity is the source URL, not the package name. Two
\* differently named unpinned packages of one source URL, on branches dev and
\* main, give exactly one conflict record, keyed by the URL, and a result of
\* length 1; the record's two changesets are keyed by the branch followed by
\* the revision the fetch read back from the working copy ("dev/<revision>",
\* "main/<revision>"), never by "HEAD".
C4_SourceIdentity ==
    C4_Case =>
        /\ DOMAIN check = {"u2"}
        /\ DOMAIN check["u2"].changesets =
              {"dev/" \o ReadBack("a"), "main/" \o ReadBack("b")}
        /\ ReadBack("a") \notin {"", "HEAD"}
        /\ ReadBack("b") \notin {"", "HEAD"}
        /\ Len(resolved) = 1

\* C4 witness: the case in a real run, the changesets keyed with the tips of
\* dev and main.
C4_Witness ==
    /\ C4_Case
    /\ ~noRun
    /\ Len(resolved) = 1
    /\ DOMAIN check["u2"].changesets = {"dev/r2", "main/r1"}

\* C5: pinned fetch is idempotent. In a run that executes its commands, once
\* git.update has returned in downloadPackage for a descriptor with a revision,
\* the working copy the descriptor names is at that revision and the descriptor
\* is unchanged; this holds for the first fetch and for every later one,
\* whether or not the upstream branch tip has moved in between.
C5_PinnedFetchIdempotent ==
    \A i \in Fetched :
        (hasRevision(stack[i].pkg0) /\ ~noRun) =>
            /\ wc[stack[i].pkg0.Name].head = stack[i].pkg0.Revision
            /\ stack[i].pkg = stack[i].pkg0

\* C5 witness: the second fetch of a pinned descriptor has returned; the
\* working copy was at the revision when the run began, and the tip of the
\* descriptor's branch has moved away from it since the first run.
C5_Witness ==
    /\ runs = 2
    /\ moves = 1
    /\ ~noRun
    /\ ~prev.noRun
    /\ stack # <<>>
    /\ Len(stack) \in Fetched
    /\ hasRevision(Top.pkg0)
    /\ wcStart[Top.pkg0.Name].head = Top.pkg0.Revision
    /\ wc[Top.pkg0.Name].head = Top.pkg0.Revision
    /\ tip[Top.pkg0.Source][getBranch(Top.pkg0)] # Top.pkg0.Revision

\* C6: revision resolution policy of one fetch. When git.update has returned
\* for a descriptor with a revision, the only checkout made is of that
\* revision, no pull was made and the descriptor is unmodified; for a
\* descriptor without revision, the branch ("master" when empty) was checked
\* out, then pulled, then the current revision was read and written into the
\* descriptor's revision, in that order and nothing else.
C6_RevisionResolution ==
    \A i \in Fetched :
        LET f == stack[i]
            branch == IF f.pkg0.Branch = "" THEN "master" ELSE f.pkg0.Branch
        IN IF f.pkg0.Revision # ""
           THEN /\ UpdateOps(f) = <<<<"checkout", f.pkg0.Revision>>>>
                /\ f.pkg = f.pkg0
           ELSE /\ UpdateOps(f) = <<<<"checkout", branch>>, <<"pull", branch>>,
                                    <<"rev-parse", f.pkg.Revision>>>>
                /\ f.pkg = [f.pkg0 EXCEPT !.Revision = f.pkg.Revision]
                /\ f.pkg.Revision # ""
                /\ (i = Len(stack) /\ f.at = "newnode") =>
                        f.pkg.Revision = ReadBack(f.pkg0.Name)

\* C6 witness: the fetch of a package without revision on the default branch
\* has written r1 into its descriptor, and below it the fetch of one of its
\* dependencies, pinned, has checked out its revision.
C6_Witness ==
    /\ ~noRun
    /\ \E i, j \in Fetched :
        /\ i < j
        /\ stack[i].pkg0.Revision = ""
        /\ stack[i].pkg0.Branch = ""
        /\ stack[i].pkg.Revision = "r1"
        /\ stack[j].pkg0.Revision # ""
        /\ wc[stack[j].pkg0.Name].head = stack[j].pkg0.Revision

\* The sources of the packages above node n, nearest first, up to and without
\* the node r.
RECURSIVE RealAncestors(_, _, _)
RealAncestors(ns, r, n) ==
    IF n = r \/ ns[n].parent = r THEN <<>>
    ELSE <<ns[ns[n].parent].packageInfo.Source>> \o RealAncestors(ns, r, ns[n].parent)

\* C7: reproducibility. When an invocation that repeats the previous one
\* (same command, argument and flag, no upstream move in between) has fetched
\* the same packages below the same parents, its tree has the same children
\* order at every node and its canonical descriptors are the same.
C7_Reproducible ==
    (/\ pc = "exit0"
     /\ prev.valid
     /\ moves = 0
     /\ prev.cmd = cmd
     /\ prev.arg = arg
     /\ prev.noRun = noRun
     /\ Unordered(nodes, root) = prev.bag)
    => /\ Shape(nodes, root) = prev.shape
       /\ Canonical = prev.canon

\* C8: the ancestor chain excludes the sentinel root. In a tree built below
\* main's root node, the chain printed for a requesting node at depth d lists
\* its d-1 real ancestors, nearest first, and nothing else.
C8_ChainExcludesRoot ==
    root = 1 =>
        \A k \in 1..Len(diag) :
            diag[k].kind = "ref" =>
                /\ Len(diag[k].from) = Depth(nodes, root, diag[k].node) - 1
                /\ diag[k].from = RealAncestors(nodes, root, diag[k].node)

\* C9: fail-fast. An invocation in which an operation failed has exited with
\* a non-zero code at that very step, and an invocation without failure does
\* not exit with a non-zero code.
C9_FailFast ==
    /\ failed => pc = "exit1"
    /\ pc = "exit1" => failed

\* C10: no rollback on failure. When a run has aborted, every working copy
\* other than the one the failing command ran on is, if a fetch of this run
\* checked it out, at the revision that fetch gave it, and is otherwise as it
\* was when the run began.
C10_NoRollback ==
    pc = "exit1" =>
        \A n \in Names :
            n # abortedAt =>
                IF given[n] # "" THEN wc[n].head = given[n] ELSE wc[n] = wcStart[n]

\* C10 witness: a run aborted on a command of one package after it had cloned
\* and checked out another, which stays at the revision given, while a third
\* was never reached.
C10_Witness ==
    /\ pc = "exit1"
    /\ ~noRun
    /\ abortedAt # ""
    /\ \E n, m \in Names :
        /\ n # abortedAt
        /\ m # abortedAt
        /\ given[n] # ""
        /\ ~wcStart[n].git
        /\ wc[n].head = given[n]
        /\ given[m] = ""
        /\ wc[m] = wcStart[m]

\* The nodes a run created for a package name.
NamedNodes(name) == {n \in 2..Len(nodes) : nodes[n].packageInfo.Name = name}

CanonicalNames == {nodes[resolved[i]].packageInfo.Name : i \in 1..Len(resolved)}

\* The nodes whose request lost: in the tree, of a conflicted source, under a
\* package name no canonical descriptor has and no other node shares.
Losers ==
    {n \in TreeNodes :
        /\ nodes[n].packageInfo.Source \in SourcesOf(resolved)
        /\ nodes[n].packageInfo.Name \notin CanonicalNames
        /\ NamedNodes(nodes[n].packageInfo.Name) = {n}}

\* C12: partial apply. No step of the re-pin phase changes a working copy
\* whose package name is not that of a canonical descriptor; in a run that
\* executes its commands, the working copy of a losing request under another
\* package name is, during and after the phase, at the revision that request
\* checked out.
C12_PartialApply ==
    /\ [][pc = "repin" => \A n \in Names \ CanonicalNames : wc'[n] = wc[n]]_vars
    /\ []((pc \in {"repin", "exit0"} /\ ~noRun) =>
            \A n \in Losers : wc[nodes[n].packageInfo.Name].head = nodes[n].packageInfo.Revision)

\* C12 witness: the run is over, the canonical working copy is at its
\* revision and the working copy of a losing request of the same source, under
\* another name, is at a different one.
C12_Witness ==
    /\ pc = "exit0"
    /\ ~noRun
    /\ \E i \in 1..Len(resolved) : \E n \in Losers :
        LET p == nodes[resolved[i]].packageInfo
            q == nodes[n].packageInfo
        IN /\ q.Source = p.Source
           /\ wc[p.Name].head = p.Revision
           /\ wc[q.Name].head = q.Revision
           /\ q.Revision # p.Revision

\* The calls of downloadPackages and downloadPackage still running.
FetchCalls == {i \in 1..Len(stack) : stack[i].fn \in {"downloadPackages", "downloadPackage"}}

\* The calls of git.update main makes on the resolved packages.
PinCalls == {i \in 1..Len(stack) : stack[i].fn = "main.update"}

\* What a step taken from the start of ResolveConflicts on leaves alone.
ResolvingStep ==
    pc \in {"resolve", "bfs", "report", "repin"} =>
        /\ pc' \in {"bfs", "report", "repin", "exit0", "exit1"}
        /\ nodes'[root].children = nodes[root].children
        /\ Len(nodes') = Len(nodes)
        /\ \A i \in 1..Len(stack') : stack'[i].fn = "main.update"

\* C13: build-then-resolve. While ResolveConflicts runs no call of the fetch
\* and no re-pin is under way; a re-pin is under way only after
\* ResolveConflicts has returned; as long as the fetch is under way
\* ResolveConflicts has not started; and from the start of ResolveConflicts on
\* no step creates a node, runs a fetch call or goes back to fetching.
C13_BuildThenResolve ==
    /\ [](pc \in {"resolve", "bfs", "report"} => stack = <<>>)
    /\ [](PinCalls # {} => pc = "repin")
    /\ [](pc = "repin" => FetchCalls = {})
    /\ [](pc \in {"load", "fetch", "symlink", "relock", "write"} =>
            queue = <<>> /\ check = EmptyMap /\ resolved = <<>> /\ diag = <<>>)
    /\ [][ResolvingStep]_vars

\* C13 witness: a tree with nested dependencies has been fetched and resolved,
\* and main is in the checkout of a resolved package.
C13_Witness ==
    /\ pc = "repin"
    /\ stack # <<>>
    /\ Top.fn = "main.update"
    /\ Len(resolved) = 1
    /\ \E n \in TreeNodes : Depth(nodes, root, n) = 2

\* --------------------------------------- SpecCycle: a cyclic dependency
\* A project whose package a comes from the cyclic repository, alone or next
\* to a package of u2, and a project without it.
CycleFiles ==
    {File("proj", "a" :> FileEntry(CyclicSource, "", "")),
     File("proj", ("a" :> FileEntry(CyclicSource, "", "r1")) @@ ("b" :> FileEntry("u2", "dev", ""))),
     File("proj", ("a" :> FileEntry("u1", "", "")) @@ ("b" :> FileEntry("u2", "main", "")))}

\* A workspace with a clone of the cyclic repository under the name a.
StaleCycle == [n \in Names |-> IF n = "a" THEN StaleClone(CyclicSource) ELSE Absent]

InitCycle ==
    /\ InitRun
    /\ wc \in {Fresh, StaleCycle}
    /\ wcStart = wc
    /\ packagesJson \in CycleFiles
    /\ lockFile = Locked(packagesJson)
    /\ lockStart = lockFile

SpecCycle == InitCycle /\ [][Next]_vars

\* The open calls of downloadPackage on a package of the cyclic repository.
CyclicCalls ==
    {i \in 1..Len(stack) :
        stack[i].fn = "downloadPackage" /\ stack[i].pkg.Source = CyclicSource}

\* A step of downloadPackage past NewNode, for a package of the cyclic
\* repository: it opens the download of the package's dependencies.
CycleStep ==
    (/\ pc = "fetch"
     /\ stack # <<>>
     /\ Len(stack) \in CyclicCalls
     /\ Top.at = "newnode"
     /\ pc' = "fetch")
    => /\ Len(stack') = Len(stack) + 1
       /\ stack'[Len(stack')].fn = "downloadPackages"
       /\ \E n \in stack'[Len(stack')].todo :
             stack'[Len(stack')].man[n].Source = CyclicSource

\* C14: no cycle detection. Once a run has called downloadPackage on a package
\* whose lock manifest leads back to a package of the same source, the run
\* stays in the fetch or aborts on a failure: no call on such a package
\* returns, every one that gets past NewNode opens the download of its
\* dependencies, and ResolveConflicts is never reached.
C14_NoCycleDetection ==
    /\ [](CyclicCalls # {} => [](pc \in {"fetch", "exit1"}))
    /\ [][CyclicCalls # {} /\ pc' # "exit1" => CyclicCalls \subseteq CyclicCalls']_vars
    /\ [][CycleStep]_vars

\* C14 witness: three calls on packages of the cyclic repository are open, one
\* inside the other, and the innermost has opened the download of its own
\* dependencies.
C14_Witness ==
    /\ pc = "fetch"
    /\ Cardinality(CyclicCalls) = 3
    /\ Len(stack) = MaxStack + 1
    /\ Top.fn = "downloadPackages"
    /\ Top.todo # {}

\* `deliver update`, executing its commands, has exited with code 0 after
\* writing packages.lock.
UpdatedAll ==
    /\ pc = "exit0"
    /\ cmd = "update"
    /\ arg = ""
    /\ ~noRun
    /\ ~failed

\* C15: lock documents are fully resolved. After a successful `update` of all
\* packages that executes its commands, the lock file has an entry for every
\* package of packages.json, each with a non-empty revision, the one the
\* package's working copy is checked out at; an entry with a revision in
\* packages.json keeps it.
C15_LockResolved ==
    UpdatedAll =>
        /\ lockFile.exists
        /\ DOMAIN lockFile.Packages = DOMAIN packagesJson.Packages
        /\ \A n \in DOMAIN lockFile.Packages :
            /\ lockFile.Packages[n].Revision # ""
            /\ lockFile.Packages[n].Revision = wc[n].head
            /\ lockFile.Packages[n].Source = packagesJson.Packages[n].Source
            /\ lockFile.Packages[n].Branch = packagesJson.Packages[n].Branch
            /\ packagesJson.Packages[n].Revision # "" =>
                    lockFile.Packages[n].Revision = packagesJson.Packages[n].Revision

\* C15 witness: two packages without revision in packages.json, on branches
\* with different tips, are locked at r2 and r1.
C15_Witness ==
    /\ UpdatedAll
    /\ DOMAIN packagesJson.Packages = {"a", "b"}
    /\ packagesJson.Packages["a"].Revision = ""
    /\ packagesJson.Packages["b"].Revision = ""
    /\ lockFile.Packages["a"].Revision = "r2"
    /\ lockFile.Packages["b"].Revision = "r1"

\* `deliver update <name>` for a package that packages.json lists.
UpdatesOne ==
    /\ cmd = "update"
    /\ arg # ""
    /\ arg \in DOMAIN packagesJson.Packages

\* What `update <name>` leaves in the lock file when it has exited with code 0
\* having written it: the entry <name> as resolved by the run, every other
\* entry as it was.
OneEntryReplaced ==
    (UpdatesOne /\ pc = "exit0" /\ ~failed) =>
        /\ lockFile.exists
        /\ DOMAIN lockFile.Packages = DOMAIN lockStart.Packages \cup {arg}
        /\ lockFile.Packages[arg].Source = packagesJson.Packages[arg].Source
        /\ lockFile.Packages[arg].Branch = packagesJson.Packages[arg].Branch
        /\ lockFile.Packages[arg].Revision =
              IF packagesJson.Packages[arg].Revision # ""
              THEN packagesJson.Packages[arg].Revision
              ELSE ReadBack(arg)
        /\ \A n \in DOMAIN lockStart.Packages \ {arg} :
                lockFile.Packages[n] = lockStart.Packages[n]

\* C16: `update <name>` replaces the entry <name> of the lock file with the
\* freshly resolved descriptor and leaves every other entry unchanged; when
\* there is no lock file before the run, the run does not abort for lack of
\* it and writes a new one.
C16_UpdateOne ==
    /\ OneEntryReplaced
    /\ (UpdatesOne /\ ~lockStart.exists) => abortedAt # LOCK_FILE

\* The manifest the command looks its argument up in, as it was when the run
\* began: packages.lock for install, packages.json for update.
LookupFile == IF cmd = "install" THEN lockStart ELSE packagesJson

\* The run was given a package name its manifest lacks.
LookupFails ==
    /\ cmd \in {"install", "update"}
    /\ arg # ""
    /\ LookupFile.exists
    /\ arg \notin DOMAIN LookupFile.Packages

C18_DryRun ==
    noRun => /\ wc = wcStart
             /\ lockFile = lockStart

\* The nodes ResolveConflicts has put into a changeset.
Visited ==
    {n \in 1..Len(nodes) :
        \E s \in DOMAIN check : \E r \in DOMAIN check[s].changesets :
            \E k \in 1..Len(check[s].changesets[r]) : check[s].changesets[r][k] = n}

\* The nodes the downloadPackage calls of the run created: all but the node
\* main made for its root.
Downloaded == 2..Len(nodes)

\* C19: the resolver sees the whole tree. When ResolveConflicts has returned,
\* every node a downloadPackage call of the run created is below the root of
\* the tree it was given and was visited by it.
C19_WholeTree ==
    Returned =>
        \A n \in Downloaded :
            /\ n # root
            /\ Below(nodes, root, n)
            /\ n \in Visited

\* One iteration of the traversal loop as the claim has it: the node dequeued
\* was not dequeued before, it is the only node the iteration visits, and it
\* is the next node in breadth-first order.
DequeueStep ==
    (pc = "bfs" /\ queue # <<>>) =>
        /\ Head(queue) \notin Visited
        /\ Visited' = Visited \cup {Head(queue)}
        /\ Head(queue) = BreadthFirst[Cardinality(Visited) + 1]

\* Breadth-first order as the claim words it: a shallower node comes first,
\* siblings come in children order, and at one depth the children of an
\* earlier node come before those of a later one.
OrderedByDepth ==
    LET pos == [n \in TreeNodes |-> Position(BreadthFirst, n)]
        depth == [n \in TreeNodes |-> Depth(nodes, root, n)]
    IN \A n, m \in TreeNodes :
        LET pn == nodes[n].parent
            pm == nodes[m].parent
        IN /\ depth[n] < depth[m] => pos[n] < pos[m]
           /\ (pn = pm /\ Position(nodes[pn].children, n) < Position(nodes[pn].children, m))
                  => pos[n] < pos[m]
           /\ (/\ depth[n] = depth[m]
               /\ pn # pm
               /\ pn # root
               /\ pm # root
               /\ pos[pn] < pos[pm])
                  => pos[n] < pos[m]

ChildSet(ns, p) == {ns[p].children[i] : i \in 1..Len(ns[p].children)}

\* What one step does to the children of the nodes: nothing, or one node that
\* was nobody's child becomes the last child of one parent, the earlier
\* children staying in place, and has that parent as its parent afterwards.
AddChildStep ==
    /\ Len(nodes') >= Len(nodes)
    /\ \/ \A p \in 1..Len(nodes) : nodes'[p].children = nodes[p].children
       \/ \E p, c \in 1..Len(nodes) :
            /\ \A q \in 1..Len(nodes) : c \notin ChildSet(nodes, q)
            /\ nodes'[p].children = Append(nodes[p].children, c)
            /\ nodes'[c].parent = p
            /\ \A q \in 1..Len(nodes) \ {p} : nodes'[q].children = nodes[q].children
            /\ \A q \in 1..Len(nodes) \ {c} : nodes'[q].parent = nodes[q].parent

\* C21: addChild(parent, child) appends child as the last child of parent,
\* keeps the earlier children and their order and sets the child's parent;
\* hence at every moment every node among the children of a node p has p as
\* its parent, appears there once, and is among the children of no other node.
C21_AddChild ==
    /\ [][AddChildStep]_vars
    /\ [](\A p \in 1..Len(nodes) :
            /\ \A i \in 1..Len(nodes[p].children) :
                  nodes[nodes[p].children[i]].parent = p
            /\ Cardinality(ChildSet(nodes, p)) = Len(nodes[p].children)
            /\ \A q \in 1..Len(nodes) :
                  q # p => ChildSet(nodes, p) \cap ChildSet(nodes, q) = {})

\* C21 witness: a package fetched below the root has two children, attached
\* one after the other, and is itself a child of the root.
C21_Witness ==
    /\ pc = "fetch"
    /\ \E p \in 2..Len(nodes) :
        /\ Len(nodes[p].children) = 2
        /\ nodes[p].children[1] < nodes[p].children[2]
        /\ nodes[p].parent = root
        /\ \E i \in 1..Len(nodes[root].children) : nodes[root].children[i] = p

\* Whether sequence s is the beginning of sequence t.
IsPrefix(s, t) == Len(s) <= Len(t) /\ SubSeq(t, 1, Len(s)) = s

\* What a step of the traversal does to the records of check: a record that
\* exists keeps its chosen node and every changeset it has, each at most
\* extended at its end; a record that appears is that of the node dequeued,
\* chosen, with one changeset keyed by the node's ref.
RecordStep ==
    pc = "bfs" =>
        /\ \A s \in DOMAIN check :
            /\ s \in DOMAIN check'
            /\ check'[s].chosen = check[s].chosen
            /\ \A r \in DOMAIN check[s].changesets :
                /\ r \in DOMAIN check'[s].changesets
                /\ IsPrefix(check[s].changesets[r], check'[s].changesets[r])
        /\ \A s \in DOMAIN check' \ DOMAIN check :
            /\ queue # <<>>
            /\ nodes[Head(queue)].packageInfo.Source = s
            /\ check'[s] = [chosen |-> Head(queue),
                            changesets |-> (RefString(nodes[Head(queue)].packageInfo)
                                                :> <<Head(queue)>>)]

\* C22: the chosen node of a source record is set when the first node with
\* that source is dequeued and no later step of the traversal changes it,
\* whatever refs later nodes of the source carry; later nodes only extend the
\* changesets. At the end the chosen node is the first of the source in
\* breadth-first order.
C22_ChosenStable ==
    /\ [][RecordStep]_vars
    /\ [](pc \in {"report", "repin"} =>
            \A s \in DOMAIN check : \A n \in Requesters(s) :
                Position(BreadthFirst, check[s].chosen) <= Position(BreadthFirst, n))

\* C22 witness: the traversal has ended with a record of three changesets; the
\* chosen node is the first dequeued, the two later nodes of the source carry
\* other refs.
C22_Witness ==
    /\ pc = "report"
    /\ \E s \in DOMAIN check :
        /\ Cardinality(DOMAIN check[s].changesets) = 3
        /\ check[s].chosen = BreadthFirst[1]
        /\ \A r \in DOMAIN check[s].changesets : Len(check[s].changesets[r]) = 1

\* The call of downloadPackage on top of the stack is at its `return node`.
Returning ==
    /\ pc = "fetch"
    /\ stack # <<>>
    /\ Top.fn = "downloadPackage"
    /\ Top.at = "return"

\* Whether the children of node n are the nodes of the entries of the lock
\* manifest `lock`, one each: the names of the children are those of the
\* entries, no two children share one, and every child holds the descriptor of
\* its entry (the revision filled in when the entry had none) and has n as its
\* parent.
ChildPerEntry(n, lock) ==
    LET kids == nodes[n].children IN
    /\ Len(kids) = Cardinality(DOMAIN lock.Packages)
    /\ {nodes[kids[i]].packageInfo.Name : i \in 1..Len(kids)} = DOMAIN lock.Packages
    /\ \A i \in 1..Len(kids) :
        LET p == nodes[kids[i]].packageInfo
            e == lock.Packages[p.Name]
        IN /\ nodes[kids[i]].parent = n
           /\ kids[i] > n
           /\ p.Source = e.Source
           /\ p.Branch = e.Branch
           /\ e.Revision # "" => p.Revision = e.Revision
           /\ p.Revision # ""

\* C23: when downloadPackage returns node n for a package whose working copy
\* holds a lock manifest, n has exactly one child per entry of that manifest,
\* each the node of the recursive fetch of the entry, with n as parent; when
\* the working copy holds none, n has no children.
C23_ChildPerEntry ==
    Returning =>
        LET lock == LockOf(wc[Top.pkg.Name]) IN
        IF lock.exists
        THEN ChildPerEntry(Top.node, lock)
        ELSE nodes[Top.node].children = <<>>

\* C23 witness: downloadPackage is about to return the node of a package whose
\* lock manifest has two entries, with two children.
C23_Witness ==
    /\ Returning
    /\ LockOf(wc[Top.pkg.Name]).exists
    /\ Cardinality(DOMAIN LockOf(wc[Top.pkg.Name]).Packages) = 2
    /\ Len(nodes[Top.node].children) = 2

\* The nodes of the calls of downloadPackage that are past NewNode and have
\* not returned.
OpenNodes ==
    {stack[i].node : i \in {j \in 1..Len(stack) :
                              stack[j].fn = "downloadPackage" /\ stack[j].node # 0}}

\* C24 as stated: a node is attached as a child of its parent as soon as it is
\* created, before any of its dependencies is fetched, and at every moment of
\* the fetch phase every created node is reachable from the root.
C24_AsStated ==
    pc = "fetch" =>
        \A n \in Downloaded :
            /\ nodes[n].parent # 0
            /\ Below(nodes, root, n)

\* A step that creates a node or gives a node its parent, as the code has it:
\* a node is created by a call of downloadPackage in which git.update has
\* returned, without parent and without children; a node gets its parent when
\* its call returns, its dependencies all fetched and attached below it.
LifecycleStep ==
    /\ Len(nodes') > Len(nodes) =>
        /\ Len(nodes') = Len(nodes) + 1
        /\ pc = "fetch"
        /\ Len(stack) \in Fetched
        /\ nodes'[Len(nodes')] = NewNode(Top.pkg)
    /\ \A c \in 2..Len(nodes) :
        (nodes[c].parent = 0 /\ Len(nodes') >= c /\ nodes'[c].parent # 0) =>
            /\ Returning
            /\ c = Top.node
            /\ nodes'[c].children = nodes[c].children
            /\ C23_ChildPerEntry

\* C24: node lifecycle. A node is created once its descriptor's working copy
\* has been fetched, without parent; it is attached as a child of its parent
\* only when its downloadPackage call returns, after all of its dependencies
\* were fetched and attached below it. During the fetch phase the nodes
\* without parent are exactly those of the calls still open, and every created
\* node is reachable from the root or from the node of an open call; once
\* downloadPackages(root, manifest) has returned every created node is
\* reachable from the root.
C24_Lifecycle ==
    /\ [][LifecycleStep]_vars
    /\ [](pc = "fetch" =>
            /\ \A n \in Downloaded : nodes[n].parent = 0 <=> n \in OpenNodes
            /\ \A n \in Downloaded :
                  \E r \in {root} \cup OpenNodes : Below(nodes, r, n))
    /\ []((pc \in {"symlink", "write", "resolve", "bfs", "report", "repin", "exit0"} /\ arg = "") =>
            \A n \in Downloaded : n # root /\ Below(nodes, root, n))

\* C24 witness: during the fetch a node without parent, its call still open,
\* already has a child, which is not reachable from the root.
C24_Witness ==
    /\ pc = "fetch"
    /\ arg = ""
    /\ \E n \in OpenNodes :
        /\ nodes[n].parent = 0
        /\ Len(nodes[n].children) = 1
        /\ ~Below(nodes, root, nodes[n].children[1])
        /\ Below(nodes, n, nodes[n].children[1])

\* The sources requested with two or more distinct refs.
Conflicted == {s \in Sources : Cardinality(RequestedRefs(s)) >= 2}

\* The lines of the diagnostic that name a node, and the warning line each
\* stands under: the last one printed before it.
RefLineIndexes == {k \in 1..Len(diag) : diag[k].kind = "ref"}

HeadLine(k) ==
    CHOOSE j \in 1..k :
        /\ diag[j].kind = "warning"
        /\ \A i \in (j + 1)..k : diag[i].kind = "ref"

LinesOf(s) == {k \in RefLineIndexes : diag[HeadLine(k)].source = s}

\* C25: conflict diagnostic. For every conflicted source one warning is
\* printed, and under it every node that requested the source is listed
\* exactly once, with its ref; exactly one of the listed nodes is marked as
\* canonical, the chosen node. No node of a source without conflict is listed.
C25_Diagnostic ==
    [](Returned =>
        LET conflicted == Conflicted
            requesters == [s \in Sources |-> Requesters(s)]
            lines == [s \in Sources |-> LinesOf(s)]
            marked == [s \in Sources |-> {k \in lines[s] : diag[k].mark}]
        IN
        /\ Len(diag) > 0 => diag[1].kind = "warning"
        /\ \A s \in conflicted :
            /\ Cardinality({k \in 1..Len(diag) :
                               diag[k].kind = "warning" /\ diag[k].source = s}) = 1
            /\ Cardinality(lines[s]) = Cardinality(requesters[s])
            /\ \A n \in requesters[s] :
                \E k \in lines[s] :
                    /\ diag[k].node = n
                    /\ diag[k].ref = RefString(nodes[n].packageInfo)
            /\ {diag[k].node : k \in marked[s]} = {check[s].chosen}
            /\ Cardinality(marked[s]) = 1
        /\ \A k \in 1..Len(diag) :
            /\ diag[k].kind = "warning" => diag[k].source \in conflicted
            /\ diag[k].kind = "ref" =>
                /\ nodes[diag[k].node].packageInfo.Source \in conflicted
                /\ k \in lines[nodes[diag[k].node].packageInfo.Source])

\* C25 witness: a source requested by three nodes with two refs, the chosen
\* node sharing its ref with another; one warning and three lines, one marked.
C25_Witness ==
    /\ Returned
    /\ Len(diag) = 4
    /\ \E s \in Conflicted :
        /\ Cardinality(Requesters(s)) = 3
        /\ Len(check[s].changesets[RefString(nodes[check[s].chosen].packageInfo)]) = 2
        /\ Cardinality({k \in LinesOf(s) : diag[k].mark}) = 1

\* The fetch phase of a run that executes its commands has completed.
FetchCompleted ==
    /\ ~noRun
    /\ pc \in {"symlink", "relock", "write", "resolve", "bfs", "report", "repin", "exit0"}

\* One step of main's loop over resolved in such a run: no descriptor changes,
\* and the call of git.update, once made, ends with its first command, the
\* checkout of the descriptor's revision, which moves HEAD and no branch.
RepinStep ==
    (pc = "repin" /\ ~noRun) =>
        /\ nodes' = nodes
        /\ manifest' = manifest
        /\ (stack # <<>> /\ pc' = "repin") =>
            /\ Top.at = "checkout"
            /\ Top.log = <<>>
            /\ stack' = <<>>
            /\ wc'[Top.pkg.Name].head = Top.pkg.Revision
            /\ wc'[Top.pkg.Name].local = wc[Top.pkg.Name].local
            /\ \A n \in Names \ {Top.pkg.Name} : wc'[n] = wc[n]

\* C26: when the fetch phase of a run that executes its commands has
\* completed, the descriptor of every node the fetch created has a concrete
\* revision; the refs ResolveConflicts compares are the branch followed by
\* that revision; and the re-pin takes the pinned path of git.update: it
\* checks out the canonical revision, does not pull and modifies no
\* descriptor.
C26_AllPinned ==
    /\ [](FetchCompleted =>
            /\ \A n \in Downloaded : nodes[n].packageInfo.Revision \in Revisions
            /\ \A s \in DOMAIN check : \A r \in DOMAIN check[s].changesets :
                \A k \in 1..Len(check[s].changesets[r]) :
                    LET p == nodes[check[s].changesets[r][k]].packageInfo
                    IN /\ p.Revision \in Revisions
                       /\ r = getBranch(p) \o "/" \o p.Revision
            /\ \A i \in PinCalls :
                /\ stack[i].pkg.Revision \in Revisions
                /\ stack[i].at = "checkout"
                /\ stack[i].pkg = nodes[stack[i].node].packageInfo)
    /\ [][RepinStep]_vars

\* C26 witness: a package listed without revision was resolved as canonical
\* with the tip its fetch read back, and the re-pin has checked that revision
\* out.
C26_Witness ==
    /\ pc = "repin"
    /\ ~noRun
    /\ stack = <<>>
    /\ pin = 2
    /\ Len(resolved) = 1
    /\ LET p == nodes[resolved[1]].packageInfo IN
        /\ packagesJson.Packages[p.Name].Revision = ""
        /\ p.Revision = "r2"
        /\ wc[p.Name].head = "r2"

\* The branch a descriptor asks for, "master" when it names none.
BranchAsked(p) == IF p.Branch = "" THEN "master" ELSE p.Branch

\* The sources for which a warning was printed.
Warned == {diag[k].source : k \in {j \in 1..Len(diag) : diag[j].kind = "warning"}}

\* C27: conflict detection compares ref strings, not commits. A source
\* requested by two nodes at the same revision on different branches is
\* reported as a conflict; a source all of whose requests are at one revision,
\* some leaving the branch empty and the others naming "master", is not: the
\* refs are equal.
C27_RefStrings ==
    [](Returned =>
        LET requesters == [s \in Sources |-> Requesters(s)]
            returned == SourcesOf(resolved)
            warned == Warned
        IN
        \A s \in Sources :
            /\ (\E n, m \in requesters[s] :
                    /\ nodes[n].packageInfo.Revision = nodes[m].packageInfo.Revision
                    /\ BranchAsked(nodes[n].packageInfo) # BranchAsked(nodes[m].packageInfo))
                => /\ s \in returned
                   /\ s \in warned
            /\ (/\ \A n, m \in requesters[s] :
                      nodes[n].packageInfo.Revision = nodes[m].packageInfo.Revision
                /\ \A n \in requesters[s] : nodes[n].packageInfo.Branch \in {"", "master"})
                => /\ s \notin returned
                   /\ s \notin warned
                   /\ \A n, m \in requesters[s] :
                        getRef(nodes[n].packageInfo) = getRef(nodes[m].packageInfo))

\* C27 witness: three requests of one source at revision r1, with no branch,
\* with "master" and with "dev": the first two share the changeset master/r1,
\* the third makes the conflict.
C27_Witness ==
    /\ Returned
    /\ Len(resolved) = 1
    /\ \E s \in Warned :
        /\ DOMAIN check[s].changesets = {"master/r1", "dev/r1"}
        /\ Len(check[s].changesets["master/r1"]) = 2
        /\ {nodes[check[s].changesets["master/r1"][i]].packageInfo.Branch : i \in 1..2}
              = {"", "master"}

\* The lowest of a non-empty set of numbers.
Least(S) == CHOOSE x \in S : \A y \in S : x <= y

\* The open calls of downloadPackage on a package name that are past the
\* clone or fetch and have no node yet.
Updating(name) ==
    {i \in 1..Len(stack) :
        /\ stack[i].fn = "downloadPackage"
        /\ stack[i].pkg.Name = name
        /\ stack[i].at \in {"checkout", "pull", "revparse", "newnode"}}

\* The source of the first descriptor of this run fetched under a package name.
FirstSource(name) ==
    IF NamedNodes(name) # {}
    THEN nodes[Least(NamedNodes(name))].packageInfo.Source
    ELSE stack[Least(Updating(name))].pkg.Source

\* The step of downloadPackage that clones or fetches: with a working copy in
\* place it runs git fetch and the working copy keeps its origin, whatever the
\* descriptor's source; without one it clones from the descriptor's source.
CloneStep ==
    /\ \A n \in Names :
        wc[n].git => wc'[n].git /\ wc'[n].origin = wc[n].origin
    /\ (/\ pc = "fetch"
        /\ stack # <<>>
        /\ Top.fn = "downloadPackage"
        /\ Top.at = "clone"
        /\ pc' = "fetch")
       => LET done == stack'[Len(stack)].log[Len(stack'[Len(stack)].log)] IN
          IF wc[Top.pkg.Name].git
          THEN done[1] = "fetch" /\ wc' = wc
          ELSE /\ done[1] = "clone"
               /\ ~noRun => wc'[Top.pkg.Name].origin = Top.pkg.Source

\* C28: working copies are keyed by package name only. Once a working copy
\* exists for a name, no later fetch of a descriptor with that name clones
\* again, also when the descriptor's source differs from the working copy's
\* origin: a working copy that was there when the run began keeps its origin,
\* and one the run cloned has the source of the first descriptor fetched under
\* its name.
C28_KeyedByName ==
    /\ [][CloneStep]_vars
    /\ [](\A n \in Names :
            wc[n].git =>
                IF wcStart[n].git THEN wc[n].origin = wcStart[n].origin
                ELSE (NamedNodes(n) # {} \/ Updating(n) # {}) =>
                        wc[n].origin = FirstSource(n))

\* C28 witness: package a, listed with source u2, was fetched into a working
\* copy cloned from u1 earlier; git fetch ran, not git clone, and the origin
\* is still u1.
C28_Witness ==
    /\ ~noRun
    /\ pc = "fetch"
    /\ stack # <<>>
    /\ Top.fn = "downloadPackage"
    /\ Top.at = "newnode"
    /\ Top.pkg.Name = "a"
    /\ Top.pkg.Source = "u2"
    /\ Top.log[1][1] = "fetch"
    /\ wc["a"].origin = "u1"

\* The array queue is on while it shares that of root.children.
SharedArray == nodes[root].children \o alias.room

\* A step of ResolveConflicts, from its call to its return, as the claim has
\* it: no node, no descriptor, no working copy and no file changes.
ReadOnlyStep ==
    (pc \in {"bfs", "report"} \/ pc' = "bfs") =>
        /\ nodes' = nodes
        /\ root' = root
        /\ wc' = wc
        /\ manifest' = manifest
        /\ lockFile' = lockFile
        /\ packagesJson' = packagesJson

\* C29: ResolveConflicts is read-only on its input. No step of it changes a
\* node's parent, children or descriptor, nor a working copy; this includes
\* the children of the root, whose array the queue is sliced from: as long as
\* the queue is on that array it is a window that ends at or behind the last
\* child of the root, so that what append writes lands behind the children.
C29_ReadOnly ==
    /\ [][ReadOnlyStep]_vars
    /\ [](alias.shared =>
            /\ alias.off + Len(queue) >= Len(nodes[root].children)
            /\ alias.off + Len(queue) <= Len(SharedArray)
            /\ pc = "bfs" =>
                  queue = SubSeq(SharedArray, alias.off + 1, alias.off + Len(queue)))

\* C29 witness: ResolveConflicts has returned after an append that wrote a
\* grandchild of the root into the array of the root's children, behind its
\* two children, which are as they were.
C29_Witness ==
    /\ Returned
    /\ alias.shared
    /\ Len(nodes[root].children) = 2
    /\ Len(alias.room) = 1
    /\ alias.room[1] \in TreeNodes
    /\ nodes[alias.room[1]].parent = nodes[root].children[1]

\* ------------------------------------------------- SpecFair: runs that go on
\* The process is never suspended for ever: as long as main has a step to
\* take, a step is taken.
SpecFair == Init /\ [][Next]_vars /\ WF_vars(Next)

\* The run is over: main has returned or the deferred recover has exited.
Ended == pc \in {"exit0", "exit1"}

\* A step of main's loop over resolved: the position moves by one, to the call
\* of git.update on the descriptor at the position left.
PinOnceStep ==
    (pc = "repin" /\ pin' # pin) =>
        /\ pin <= Len(resolved)
        /\ pin' = pin + 1
        /\ stack = <<>>
        /\ Len(stack') = 1
        /\ stack'[1].fn = "main.update"
        /\ stack'[1].node = resolved[pin]
        /\ stack'[1].pkg = nodes[resolved[pin]].packageInfo

\* C30: termination on acyclic input. With lock manifests that form a finite
\* acyclic graph every run ends; it ends with exit code 1 only when an
\* operation failed, and otherwise the fetch has returned with a finite tree,
\* ResolveConflicts has returned on it with an empty queue, and main has made
\* one call of git.update for each descriptor returned, in order, the
\* descriptors being those of distinct nodes.
C30_Termination ==
    /\ <>Ended
    /\ [](pc = "exit1" => failed)
    /\ [][PinOnceStep]_vars
    /\ [](pc = "exit0" =>
            /\ stack = <<>>
            /\ queue = <<>>
            /\ left = {}
            /\ pin = IF cmd = "path" THEN 1 ELSE Len(resolved) + 1
            /\ \A i, j \in 1..Len(resolved) : resolved[i] = resolved[j] => i = j)

\* C30 witness: a run without failure has ended after fetching a package and
\* its two dependencies, resolving the conflict between them and re-pinning
\* the one canonical descriptor.
C30_Witness ==
    /\ pc = "exit0"
    /\ ~failed
    /\ ~noRun
    /\ Len(resolved) = 1
    /\ pin = 2
    /\ \E n \in TreeNodes : Len(nodes[n].children) = 2

====
